---- MODULE Spec2Model ----
(***************************************************************************)
(* The patient-assistant workflow of src/main.py: the graph                *)
(* START -> check_condition -> (handle_emergency | call_model) ->          *)
(* write_memory -> END, its per-thread conversation state (MemorySaver)    *)
(* and its per-patient profile store (InMemoryStore).                      *)
(*                                                                         *)
(* A text is a sequence of one-character strings, so that str.lower(), the *)
(* substring test and str.format() are computed character by character.    *)
(* In a template the placeholders "{history}" and "{clinic_name}" are      *)
(* single elements.  The typographic apostrophe of the emergency message   *)
(* is written as "'".                                                       *)
(***************************************************************************)
EXTENDS Integers, Sequences, FiniteSets, TLC

(* ---- literals of the source ---- *)

CLINIC_NAME ==
  <<
    "G", "o", "o", "d", " ", "H", "e", "a", "l", "t", "h", " ", "C", "l", "i", "n", "i", "c"
  >>

MODEL_SYSTEM_MESSAGE ==
  <<
    "Y", "o", "u", " ", "a", "r", "e", " ", "a", " ", "h", "e", "l", "p", "f", "u", "l", " ",
    "m", "e", "d", "i", "c", "a", "l", " ", "a", "s", "s", "i", "s", "t", "a", "n", "t", " ",
    "f", "o", "r", " ", "{clinic_name}", ".", " ", "\n", "U", "s", "e", " ", "t", "h", "e", " ",
    "p", "a", "t", "i", "e", "n", "t", "'", "s", " ", "h", "i", "s", "t", "o", "r", "y", " ",
    "t", "o", " ", "p", "r", "o", "v", "i", "d", "e", " ", "r", "e", "l", "e", "v", "a", "n",
    "t", ",", " ", "p", "e", "r", "s", "o", "n", "a", "l", "i", "z", "e", "d", " ", "a", "p",
    "p", "o", "i", "n", "t", "m", "e", "n", "t", " ", "s", "c", "h", "e", "d", "u", "l", "i",
    "n", "g", " ", "o", "r", " ", "a", "d", "v", "i", "c", "e", ".", "\n", "P", "a", "t", "i",
    "e", "n", "t", " ", "p", "r", "o", "f", "i", "l", "e", ":", " ", "{history}"
  >>

UPDATE_PATIENT_PROFILE_INSTRUCTION ==
  <<
    "U", "p", "d", "a", "t", "e", " ", "t", "h", "e", " ", "p", "a", "t", "i", "e", "n", "t",
    "'", "s", " ", "m", "e", "d", "i", "c", "a", "l", "/", "a", "p", "p", "o", "i", "n", "t",
    "m", "e", "n", "t", " ", "p", "r", "o", "f", "i", "l", "e", " ", "w", "i", "t", "h", " ",
    "n", "e", "w", " ", "i", "n", "f", "o", "r", "m", "a", "t", "i", "o", "n", ".", "\n", "\n",
    "C", "U", "R", "R", "E", "N", "T", " ", "P", "R", "O", "F", "I", "L", "E", ":", "\n",
    "{history}", "\n", "\n", "A", "N", "A", "L", "Y", "Z", "E", " ", "F", "O", "R", ":", "\n",
    "1", ".", " ", "A", "p", "p", "o", "i", "n", "t", "m", "e", "n", "t", " ", "h", "i", "s",
    "t", "o", "r", "y", " ", "(", "d", "a", "t", "e", "s", ",", " ", "t", "i", "m", "e", "s",
    ",", " ", "n", "o", "-", "s", "h", "o", "w", "s", ")", "\n", "2", ".", " ", "M", "e", "d",
    "i", "c", "a", "l", " ", "p", "r", "e", "f", "e", "r", "e", "n", "c", "e", "s", " ", "o",
    "r", " ", "c", "o", "n", "c", "e", "r", "n", "s", "\n", "3", ".", " ", "P", "r", "e", "v",
    "i", "o", "u", "s", " ", "d", "i", "a", "g", "n", "o", "s", "e", "s", " ", "o", "r", " ",
    "t", "r", "e", "a", "t", "m", "e", "n", "t", "s", "\n", "4", ".", " ", "M", "e", "d", "i",
    "c", "a", "t", "i", "o", "n", " ", "u", "s", "a", "g", "e", " ", "o", "r", " ", "a", "l",
    "l", "e", "r", "g", "i", "e", "s", "\n", "5", ".", " ", "F", "o", "l", "l", "o", "w", "-",
    "u", "p", " ", "n", "e", "e", "d", "s", "\n", "\n", "F", "o", "c", "u", "s", " ", "o", "n",
    " ", "v", "e", "r", "i", "f", "i", "e", "d", " ", "a", "p", "p", "o", "i", "n", "t", "m",
    "e", "n", "t", " ", "a", "n", "d", " ", "m", "e", "d", "i", "c", "a", "l", " ", "d", "e",
    "t", "a", "i", "l", "s", " ", "o", "n", "l", "y", ".", " ", "S", "u", "m", "m", "a", "r",
    "i", "z", "e", " ", "k", "e", "y", " ", "p", "o", "i", "n", "t", "s", " ", "c", "l", "e",
    "a", "r", "l", "y", ".", "\n", "\n", "U", "p", "d", "a", "t", "e", " ", "t", "h", "e", " ",
    "p", "r", "o", "f", "i", "l", "e", " ", "b", "a", "s", "e", "d", " ", "o", "n", " ", "t",
    "h", "i", "s", " ", "c", "o", "n", "v", "e", "r", "s", "a", "t", "i", "o", "n", ":", "\n"
  >>

EMERGENCY_CONTENT ==
  <<
    "W", "e", "'", "v", "e", " ", "d", "e", "t", "e", "c", "t", "e", "d", " ", "a", "n", " ",
    "e", "m", "e", "r", "g", "e", "n", "c", "y", ".", " ", "P", "l", "e", "a", "s", "e", " ",
    "c", "o", "n", "t", "a", "c", "t", " ", "e", "m", "e", "r", "g", "e", "n", "c", "y", " ",
    "s", "e", "r", "v", "i", "c", "e", "s", " ", "i", "m", "m", "e", "d", "i", "a", "t", "e",
    "l", "y", " ", "o", "r", " ", "c", "a", "l", "l", " ", "o", "u", "r", " ", "2", "4", "/",
    "7", " ", "u", "r", "g", "e", "n", "t", " ", "l", "i", "n", "e", ":", " ", "+", "4", "3",
    " ", "0", "0", " ", "0", "0", " ", "0", "0", "."
  >>

NO_PROFILE_FOUND ==
  <<
    "N", "o", " ", "e", "x", "i", "s", "t", "i", "n", "g", " ", "p", "a", "t", "i", "e", "n",
    "t", " ", "p", "r", "o", "f", "i", "l", "e", " ", "f", "o", "u", "n", "d", "."
  >>

NO_HISTORY ==
  <<
    "N", "o", " ", "e", "x", "i", "s", "t", "i", "n", "g", " ", "h", "i", "s", "t", "o", "r",
    "y", "."
  >>

EMERGENCY_WORD ==
  <<
    "e", "m", "e", "r", "g", "e", "n", "c", "y"
  >>

(* ---- bounds and the inputs of the model ---- *)

MaxInvocations == 2

Patients == {"1", "2"}

Threads == {"1a", "1b", "2a"}

\* The conversation threads of a patient: config pairs a thread_id with the
\* patient_id of the patient the conversation is with.
ThreadPatient(t) == IF t \in {"1a", "1b"} THEN "1" ELSE "2"

UPPER == <<"A", "B", "C", "D", "E", "F", "G", "H", "I", "J", "K", "L", "M",
           "N", "O", "P", "Q", "R", "S", "T", "U", "V", "W", "X", "Y", "Z">>

LOWER == <<"a", "b", "c", "d", "e", "f", "g", "h", "i", "j", "k", "l", "m",
           "n", "o", "p", "q", "r", "s", "t", "u", "v", "w", "x", "y", "z">>

(* ---- str operations ---- *)

LowerChar(c) ==
  IF \E i \in 1..26 : UPPER[i] = c
  THEN LOWER[CHOOSE i \in 1..26 : UPPER[i] = c]
  ELSE c

\* str.lower()
lower(s) == [i \in 1..Len(s) |-> LowerChar(s[i])]

\* sub in s
Contains(sub, s) ==
  \E i \in 1..(Len(s) - Len(sub) + 1) : SubSeq(s, i, i + Len(sub) - 1) = sub

\* template.format(**args): every placeholder is replaced by its argument,
\* the text between the placeholders is copied.  Fill does it from position
\* `from` on, P being the positions of the placeholders.
RECURSIVE Fill(_, _, _, _)
Fill(template, args, P, from) ==
  IF {i \in P : i >= from} = {}
  THEN SubSeq(template, from, Len(template))
  ELSE LET i == CHOOSE m \in {j \in P : j >= from} :
                  \A n \in {j \in P : j >= from} : m <= n
       IN  SubSeq(template, from, i - 1) \o args[template[i]]
             \o Fill(template, args, P, i + 1)

format(template, args) ==
  Fill(template, args, {i \in DOMAIN template : template[i] \in DOMAIN args}, 1)

(* ---- messages ---- *)

HumanMessage(c) == [type |-> "human", content |-> c]

SystemMessage(c) == [type |-> "system", content |-> c]

AIMessage(c) == [type |-> "ai", content |-> c]

\* Mutant of add_messages: the update replaces the messages.
add_messages_replace(left, right) == right

\* The reducer of MessagesState: the update's messages are appended.
add_messages(left, right) == left \o right

\* What the caller sends: the lists of new user turns.
Inputs ==
  { <<>>,
    <<HumanMessage(<<"c", "h", "e", "c", "k", "u", "p">>)>>,
    <<HumanMessage(<<"a", "n", " ", "E", "m", "E", "R", "G", "E", "N", "C", "Y", "!">>)>>,
    <<HumanMessage(<<"e", "m", "e", "r", "g", "e", "n", "c", " ", "y">>)>>,
    <<HumanMessage(<<"E", "M", "E", "R", "G", "E", "N", "C", "Y">>),
      HumanMessage(<<"c", "h", "e", "c", "k", "u", "p">>)>> }

\* What the chat model may answer (it is a black box: any of these, to any
\* request).
ModelOutputs ==
  { <<"o", "k">>,
    <<"E", "m", "e", "r", "g", "e", "n", "c", "y", " ", "p", "l", "a", "n">> }

(* ---- the store (InMemoryStore) ---- *)

None == [none |-> TRUE]

\* Mutant of namespace_of: the patient_id is left out of the namespace.
namespace_shared(patient_id) == <<"patient_interactions">>

namespace_of(patient_id) == <<"patient_interactions", patient_id>>

KEY == "patient_data_memory"

Found(s, namespace, key) == {i \in s : i.namespace = namespace /\ i.key = key}

\* store.get(namespace, key): the item, or None
StoreGet(s, namespace, key) ==
  IF Found(s, namespace, key) = {} THEN None
  ELSE CHOOSE i \in Found(s, namespace, key) : TRUE

\* Mutant of StorePut: an existing item is kept (first writer wins).
StorePutIfAbsent(s, namespace, key, value) ==
  IF Found(s, namespace, key) # {} THEN s
  ELSE s \cup {[namespace |-> namespace, key |-> key, value |-> value]}

\* store.put(namespace, key, value): the item of (namespace, key) is replaced
StorePut(s, namespace, key, value) ==
  (s \ Found(s, namespace, key))
     \cup {[namespace |-> namespace, key |-> key, value |-> value]}

\* Mutant of HistoryOr: without a record the history is empty, not the default.
HistoryOrEmpty(memory, default) ==
  IF memory # None THEN memory.value.patient_data_memory ELSE <<>>

\* Mutant of HistoryOr: the stored profile is ignored.
HistoryOrAlwaysDefault(memory, default) == default

\* memory.value.get('patient_data_memory') if memory else default
HistoryOr(memory, default) ==
  IF memory # None THEN memory.value.patient_data_memory ELSE default

(* ---- the nodes, as functions of the state ---- *)

\* Mutant of check_condition: every message is searched, not the last only.
check_condition_any_message(state) ==
  IF \E k \in DOMAIN state.messages :
       Contains(EMERGENCY_WORD, lower(state.messages[k].content))
  THEN [decision |-> "emergency_route"]
  ELSE [decision |-> "regular_route"]

\* Mutant of check_condition: without the word the decision is "end".
check_condition_end(state) ==
  LET user_msg == lower(state.messages[Len(state.messages)].content)
  IN  IF Contains(EMERGENCY_WORD, user_msg)
      THEN [decision |-> "emergency_route"]
      ELSE [decision |-> "end"]

\* Mutant of check_condition: the content is not lowercased.
check_condition_case_sensitive(state) ==
  LET user_msg == state.messages[Len(state.messages)].content
  IN  IF Contains(EMERGENCY_WORD, user_msg)
      THEN [decision |-> "emergency_route"]
      ELSE [decision |-> "regular_route"]

\* check_condition: the decision for a state with at least one message
check_condition(state) ==
  LET user_msg == lower(state.messages[Len(state.messages)].content)
  IN  IF Contains(EMERGENCY_WORD, user_msg)
      THEN [decision |-> "emergency_route"]
      ELSE [decision |-> "regular_route"]

\* handle_emergency: the static reply
handle_emergency(state) ==
  [messages |-> <<SystemMessage(EMERGENCY_CONTENT)>>]

\* call_model, steps 1-3: the request sent to the model
call_model_request(state, history) ==
  <<SystemMessage(format(MODEL_SYSTEM_MESSAGE,
       ("{history}" :> history) @@ ("{clinic_name}" :> CLINIC_NAME)))>>
    \o state.messages

\* write_memory, steps 1-3: the request sent to the model
write_memory_request(state, history) ==
  <<SystemMessage(format(UPDATE_PATIENT_PROFILE_INSTRUCTION,
       ("{history}" :> history)))>>
    \o state.messages

\* Mutant of write_memory_value: the new text is appended to the old profile.
write_memory_value_appended(history, new_insights) ==
  [patient_data_memory |-> history \o new_insights.content]

\* write_memory, step 4: the value put in the store
write_memory_value(history, new_insights) ==
  [patient_data_memory |-> new_insights.content]

(* ---- the graph ---- *)

END == "END"

\* Mutant of PathMap: the emergency route is wired to call_model too.
PathMapEmergencyToModel(decision) ==
  CASE decision = "emergency_route" -> "call_model"
    [] decision = "regular_route"   -> "call_model"
    [] decision = "end"             -> END

\* add_conditional_edges("check_condition", ...): the path map
PathMap(decision) ==
  CASE decision = "emergency_route" -> "handle_emergency"
    [] decision = "regular_route"   -> "call_model"
    [] decision = "end"             -> END

\* Mutant of Edge: write_memory goes back to call_model (a cycle).
EdgeMemoryBackToModel(node) ==
  CASE node = "handle_emergency" -> "write_memory"
    [] node = "call_model"       -> "write_memory"
    [] node = "write_memory"     -> "call_model"

\* Mutant of Edge: call_model goes on to handle_emergency.
EdgeModelThenEmergency(node) ==
  CASE node = "handle_emergency" -> "write_memory"
    [] node = "call_model"       -> "handle_emergency"
    [] node = "write_memory"     -> END

\* Mutant of Edge: handle_emergency goes to END, not to write_memory.
EdgeEmergencyToEnd(node) ==
  CASE node = "handle_emergency" -> END
    [] node = "call_model"       -> "write_memory"
    [] node = "write_memory"     -> END

\* add_edge: the node after a node
Edge(node) ==
  CASE node = "handle_emergency" -> "write_memory"
    [] node = "call_model"       -> "write_memory"
    [] node = "write_memory"     -> END

(* ---- state ---- *)

VARIABLES
  store,       \* across_thread_memory: the set of items
  checkpoint,  \* within_thread_memory: thread_id -> the saved messages
  run,         \* thread_id -> the invocation running (or last run) on it
  nInv,        \* invocations started so far
  storeLog,    \* history: the store operations, in the order they happened
  produced     \* history: patient_id -> the messages of its invocations

vars == <<store, checkpoint, run, nInv, storeLog, produced>>

\* pc: "idle", the node about to run, "<node>:invoke" while the node waits for
\* model.invoke, END after a normal return, "ERROR" after an exception.
IdleRun ==
  [pc |-> "idle", inv |-> 0, patient_id |-> "", messages |-> <<>>,
   decision |-> "unset", history |-> <<>>, request |-> <<>>,
   new_insights |-> None, error |-> "", failed_at |-> "",
   nodes |-> <<>>, calls |-> <<>>,
   input |-> <<>>, checkpoint0 |-> <<>>, messages0 |-> <<>>,
   profile0 |-> None, log0 |-> 0]

Init ==
  /\ store = {}
  /\ checkpoint = [t \in Threads |-> <<>>]
  /\ run = [t \in Threads |-> IdleRun]
  /\ nInv = 0
  /\ storeLog = <<>>
  /\ produced = [p \in Patients |-> {}]

State(t) == [messages |-> run[t].messages]

LogEntry(t, op, node, value) ==
  [inv |-> run[t].inv, patient_id |-> run[t].patient_id, op |-> op,
   node |-> node, namespace |-> namespace_of(run[t].patient_id), key |-> KEY,
   value |-> value]

\* graph.stream({"messages": input}, config): the input is added to the saved
\* messages of the thread and the graph starts at check_condition.  A thread
\* carries one conversation: its next invocation starts when the previous one
\* has returned or raised.  Invocations on different threads run concurrently.
Produce(patient_id, msgs) ==
  [produced EXCEPT ![patient_id] = @ \cup {msgs[i] : i \in DOMAIN msgs}]

Invoke(t, input) ==
  /\ run[t].pc \in {"idle", END, "ERROR"}
  /\ nInv < MaxInvocations
  /\ nInv' = nInv + 1
  /\ LET msgs == add_messages(checkpoint[t], input)
     IN  /\ checkpoint' = [checkpoint EXCEPT ![t] = msgs]
         /\ run' = [run EXCEPT ![t] =
                [IdleRun EXCEPT !.pc = "check_condition", !.inv = nInv + 1,
                   !.patient_id = ThreadPatient(t), !.messages = msgs,
                   !.input = input, !.checkpoint0 = checkpoint[t],
                   !.messages0 = msgs,
                   !.profile0 = StoreGet(store, namespace_of(ThreadPatient(t)), KEY),
                   !.log0 = Len(storeLog)]]
  /\ produced' = Produce(ThreadPatient(t), input)
  /\ UNCHANGED <<store, storeLog>>

\* Mutant of CheckCondition: with no message the route is regular, no error.
CheckConditionEmptyIsRegular(t) ==
  /\ run[t].pc = "check_condition"
  /\ LET d == IF run[t].messages = <<>> THEN "regular_route"
              ELSE check_condition(State(t)).decision
     IN  run' = [run EXCEPT ![t].decision = d, ![t].pc = PathMap(d),
                    ![t].nodes = Append(@, "check_condition")]
  /\ UNCHANGED <<store, checkpoint, nInv, storeLog, produced>>

\* The node check_condition and the conditional edge after it, which is given
\* the decision the node returned (lines 141-146).  With no message at all,
\* state["messages"][-1] raises IndexError.
CheckCondition(t) ==
  /\ run[t].pc = "check_condition"
  /\ IF run[t].messages = <<>>
     THEN run' = [run EXCEPT ![t].pc = "ERROR", ![t].error = "IndexError",
                     ![t].failed_at = "check_condition",
                     ![t].nodes = Append(@, "check_condition")]
     ELSE LET d == check_condition(State(t)).decision
          IN  run' = [run EXCEPT ![t].decision = d, ![t].pc = PathMap(d),
                         ![t].nodes = Append(@, "check_condition")]
  /\ UNCHANGED <<store, checkpoint, nInv, storeLog, produced>>

\* The node handle_emergency and the edge after it.
HandleEmergency(t) ==
  /\ run[t].pc = "handle_emergency"
  /\ LET msgs == add_messages(run[t].messages, handle_emergency(State(t)).messages)
     IN  /\ run' = [run EXCEPT ![t].messages = msgs,
                       ![t].pc = Edge("handle_emergency"),
                       ![t].nodes = Append(@, "handle_emergency")]
         /\ checkpoint' = [checkpoint EXCEPT ![t] = msgs]
         /\ produced' = Produce(run[t].patient_id, handle_emergency(State(t)).messages)
  /\ UNCHANGED <<store, nInv, storeLog>>

\* call_model up to the call of model.invoke (lines 85-98).
CallModelInvoke(t) ==
  /\ run[t].pc = "call_model"
  /\ LET memory == StoreGet(store, namespace_of(run[t].patient_id), KEY)
         history == HistoryOr(memory, NO_PROFILE_FOUND)
     IN  /\ run' = [run EXCEPT ![t].pc = "call_model:invoke",
                       ![t].history = history,
                       ![t].request = call_model_request(State(t), history),
                       ![t].nodes = Append(@, "call_model"),
                       ![t].calls = Append(@, "call_model")]
         /\ storeLog' = Append(storeLog, LogEntry(t, "get", "call_model", memory))
  /\ UNCHANGED <<store, checkpoint, nInv, produced>>

\* Mutant of CallModelReturn: call_model also saves its reply in the store.
CallModelReturnStoresReply(t, text) ==
  /\ run[t].pc = "call_model:invoke"
  /\ LET msgs == add_messages(run[t].messages, <<AIMessage(text)>>)
         value == [patient_data_memory |-> text]
     IN  /\ run' = [run EXCEPT ![t].messages = msgs, ![t].request = <<>>,
                       ![t].pc = Edge("call_model")]
         /\ checkpoint' = [checkpoint EXCEPT ![t] = msgs]
         /\ produced' = Produce(run[t].patient_id, <<AIMessage(text)>>)
         /\ store' = StorePut(store, namespace_of(run[t].patient_id), KEY, value)
         /\ storeLog' = Append(storeLog, LogEntry(t, "put", "call_model", value))
  /\ UNCHANGED nInv

\* model.invoke returns: the response is added to the messages (line 100).
CallModelReturn(t, text) ==
  /\ run[t].pc = "call_model:invoke"
  /\ LET msgs == add_messages(run[t].messages, <<AIMessage(text)>>)
     IN  /\ run' = [run EXCEPT ![t].messages = msgs, ![t].request = <<>>,
                       ![t].pc = Edge("call_model")]
         /\ checkpoint' = [checkpoint EXCEPT ![t] = msgs]
         /\ produced' = Produce(run[t].patient_id, <<AIMessage(text)>>)
  /\ UNCHANGED <<store, nInv, storeLog>>

\* Mutant of CallModelRaise: the exception is swallowed and the graph goes on.
CallModelRaiseSwallowed(t) ==
  /\ run[t].pc = "call_model:invoke"
  /\ run' = [run EXCEPT ![t].pc = Edge("call_model"), ![t].error = "model.invoke",
                ![t].failed_at = "call_model", ![t].request = <<>>]
  /\ UNCHANGED <<store, checkpoint, nInv, storeLog, produced>>

\* Mutant of CallModelRaise: the call is tried once more.
CallModelRaiseRetried(t) ==
  /\ run[t].pc = "call_model:invoke"
  /\ run' = [run EXCEPT ![t].calls = Append(@, "call_model")]
  /\ UNCHANGED <<store, checkpoint, nInv, storeLog, produced>>

\* model.invoke raises in call_model: nothing catches it, the invocation ends
\* with the exception.
CallModelRaise(t) ==
  /\ run[t].pc = "call_model:invoke"
  /\ run' = [run EXCEPT ![t].pc = "ERROR", ![t].error = "model.invoke",
                ![t].failed_at = "call_model", ![t].request = <<>>]
  /\ UNCHANGED <<store, checkpoint, nInv, storeLog, produced>>

\* Mutant of WriteMemoryInvoke: the history call_model read is used again.
WriteMemoryInvokeStaleHistory(t) ==
  /\ run[t].pc = "write_memory"
  /\ LET memory == StoreGet(store, namespace_of(run[t].patient_id), KEY)
         history == IF run[t].history # <<>> THEN run[t].history
                    ELSE HistoryOr(memory, NO_HISTORY)
     IN  /\ run' = [run EXCEPT ![t].pc = "write_memory:invoke",
                       ![t].history = history,
                       ![t].request = write_memory_request(State(t), history),
                       ![t].nodes = Append(@, "write_memory"),
                       ![t].calls = Append(@, "write_memory")]
         /\ storeLog' = Append(storeLog, LogEntry(t, "get", "write_memory", memory))
  /\ UNCHANGED <<store, checkpoint, nInv, produced>>

\* write_memory up to the call of model.invoke (lines 111-122).
WriteMemoryInvoke(t) ==
  /\ run[t].pc = "write_memory"
  /\ LET memory == StoreGet(store, namespace_of(run[t].patient_id), KEY)
         history == HistoryOr(memory, NO_HISTORY)
     IN  /\ run' = [run EXCEPT ![t].pc = "write_memory:invoke",
                       ![t].history = history,
                       ![t].request = write_memory_request(State(t), history),
                       ![t].nodes = Append(@, "write_memory"),
                       ![t].calls = Append(@, "write_memory")]
         /\ storeLog' = Append(storeLog, LogEntry(t, "get", "write_memory", memory))
  /\ UNCHANGED <<store, checkpoint, nInv, produced>>

\* model.invoke returns in write_memory: the profile is put (line 126) and
\* the graph reaches END.
WriteMemoryReturn(t, text) ==
  /\ run[t].pc = "write_memory:invoke"
  /\ LET new_insights == AIMessage(text)
         value == write_memory_value(run[t].history, new_insights)
     IN  /\ store' = StorePut(store, namespace_of(run[t].patient_id), KEY, value)
         /\ storeLog' = Append(storeLog, LogEntry(t, "put", "write_memory", value))
         /\ run' = [run EXCEPT ![t].new_insights = new_insights,
                       ![t].request = <<>>, ![t].pc = Edge("write_memory")]
  /\ UNCHANGED <<checkpoint, nInv, produced>>

\* Mutant of WriteMemoryRaise: the call is tried once more.
WriteMemoryRaiseRetried(t) ==
  /\ run[t].pc = "write_memory:invoke"
  /\ run' = [run EXCEPT ![t].calls = Append(@, "write_memory"),
                ![t].failed_at = "write_memory"]
  /\ UNCHANGED <<store, checkpoint, nInv, storeLog, produced>>

\* model.invoke raises in write_memory: nothing catches it either.
WriteMemoryRaise(t) ==
  /\ run[t].pc = "write_memory:invoke"
  /\ run' = [run EXCEPT ![t].pc = "ERROR", ![t].error = "model.invoke",
                ![t].failed_at = "write_memory", ![t].request = <<>>]
  /\ UNCHANGED <<store, checkpoint, nInv, storeLog, produced>>

Next ==
  \E t \in Threads :
    \/ \E input \in Inputs : Invoke(t, input)
    \/ CheckCondition(t)
    \/ HandleEmergency(t)
    \/ CallModelInvoke(t)
    \/ \E text \in ModelOutputs : CallModelReturn(t, text)
    \/ CallModelRaise(t)
    \/ WriteMemoryInvoke(t)
    \/ \E text \in ModelOutputs : WriteMemoryReturn(t, text)
    \/ WriteMemoryRaise(t)

Spec == Init /\ [][Next]_vars

\* The steps the graph engine takes by itself: it runs the next node as soon
\* as the previous one has finished.
EngineStep(t) ==
  \/ CheckCondition(t)
  \/ HandleEmergency(t)
  \/ CallModelInvoke(t)
  \/ WriteMemoryInvoke(t)

\* The chat model answers a call or fails it.
ModelAnswer(t) ==
  \/ \E text \in ModelOutputs : CallModelReturn(t, text)
  \/ CallModelRaise(t)
  \/ \E text \in ModelOutputs : WriteMemoryReturn(t, text)
  \/ WriteMemoryRaise(t)

\* For termination: two threads of one patient, an empty, a regular and an
\* emergency input.
FairThreads == {"1a", "1b"}

FairInputs == {input \in Inputs : Len(input) <= 1 /\ \A k \in DOMAIN input :
                 Len(input[k].content) # 10}

FairNext ==
  \E t \in FairThreads :
    \/ \E input \in FairInputs : Invoke(t, input)
    \/ EngineStep(t)
    \/ ModelAnswer(t)

\* The engine keeps running a started invocation, and every model.invoke call
\* eventually returns or raises.
FairSpec ==
  /\ Init
  /\ [][FairNext]_vars
  /\ \A t \in FairThreads : WF_vars(EngineStep(t)) /\ WF_vars(ModelAnswer(t))

TypeOK ==
  /\ nInv \in 0..MaxInvocations
  /\ \A t \in Threads :
       run[t].pc \in {"idle", "check_condition", "handle_emergency", "call_model",
                      "call_model:invoke", "write_memory", "write_memory:invoke",
                      END, "ERROR"}

(* ---- properties ---- *)

Count(seq, x) == Cardinality({i \in DOMAIN seq : seq[i] = x})

\* The puts of an invocation, as positions of storeLog.
PutsBy(inv) ==
  {i \in DOMAIN storeLog : storeLog[i].op = "put" /\ storeLog[i].inv = inv}

\* No put to the profile of t's patient since t's invocation started.
NoPutSinceStart(t) ==
  \A i \in DOMAIN storeLog :
    (i > run[t].log0 /\ storeLog[i].op = "put")
      => storeLog[i].patient_id # run[t].patient_id

\* The profile record of t's patient is what it was when the invocation started
\* (unless another invocation has put it since).
ProfileUnchanged(t) ==
  NoPutSinceStart(t)
    => StoreGet(store, <<"patient_interactions", run[t].patient_id>>,
                "patient_data_memory") = run[t].profile0

\* A reply has been added to the messages the invocation started with.
Replied(t) == Len(run[t].messages) > Len(run[t].messages0)

\* C1 as stated: an invocation routed to emergency makes no model.invoke call
\* at all between start and end.
C1_EmergencyRouteNoCall ==
  \A t \in Threads :
    run[t].decision = "emergency_route" => run[t].calls = <<>>

\* C1, amended: in an invocation routed to emergency the emergency handler
\* makes no model.invoke call and no reply-generation call is ever made; the
\* only call is the one of write_memory, so there is at most one call, and
\* exactly that one when the invocation reaches END.
C1_EmergencyHandlerNoCall ==
  \A t \in Threads :
    run[t].decision = "emergency_route" =>
      /\ "call_model" \notin {run[t].nodes[i] : i \in DOMAIN run[t].nodes}
      /\ Count(run[t].calls, "call_model") = 0
      /\ Len(run[t].calls) <= 1
      /\ (run[t].pc \in {"handle_emergency", "write_memory"} => run[t].calls = <<>>)
      /\ (run[t].pc = END => run[t].calls = <<"write_memory">>)

C1_Witness ==
  \E t \in Threads :
    /\ run[t].decision = "emergency_route"
    /\ run[t].pc = END
    /\ run[t].calls = <<"write_memory">>
    /\ run[t].messages[Len(run[t].messages)] = SystemMessage(EMERGENCY_CONTENT)

\* C2 as stated: when model.invoke fails in write_memory only, the invocation
\* still returns normally, and the profile record is unchanged.
C2_SummaryFailureStillReturns ==
  \A t \in Threads :
    run[t].failed_at = "write_memory" =>
      /\ run[t].pc = END
      /\ ProfileUnchanged(t)

\* C3: when model.invoke fails in call_model the invocation fails, write_memory
\* is never entered, the invocation puts nothing and the profile record is
\* unchanged.
C3_ReplyFailureAborts ==
  \A t \in Threads :
    run[t].failed_at = "call_model" =>
      /\ run[t].pc = "ERROR"
      /\ "write_memory" \notin {run[t].nodes[i] : i \in DOMAIN run[t].nodes}
      /\ run[t].calls = <<"call_model">>
      /\ PutsBy(run[t].inv) = {}
      /\ ProfileUnchanged(t)

C3_Witness ==
  \E t \in Threads :
    /\ run[t].failed_at = "call_model"
    /\ run[t].pc = "ERROR"
    /\ run[t].profile0 # None
    /\ NoPutSinceStart(t)

\* C4: write_memory runs exactly once in every invocation in which call_model or
\* handle_emergency produced a reply: never twice, never before the reply, and
\* an invocation that has ended after a reply has run it once.
C4_SummarizerOnce ==
  \A t \in Threads :
    /\ Count(run[t].nodes, "write_memory") <= 1
    /\ (Count(run[t].nodes, "write_memory") = 1 => Replied(t))
    /\ (run[t].pc = END => Replied(t))
    /\ ((Replied(t) /\ run[t].pc \in {END, "ERROR"})
          => Count(run[t].nodes, "write_memory") = 1)

C4_Witness ==
  \E t1, t2 \in Threads :
    /\ run[t1].pc = END /\ run[t1].decision = "emergency_route"
    /\ run[t2].pc = END /\ run[t2].decision = "regular_route"
    /\ Count(run[t1].nodes, "write_memory") = 1
    /\ Count(run[t2].nodes, "write_memory") = 1

\* C5: a regular invocation calls model.invoke first in call_model, then in
\* write_memory, once each; when it completes it has made exactly these two.
C5_RegularTwoCalls ==
  \A t \in Threads :
    run[t].decision = "regular_route" =>
      /\ run[t].calls \in {<<>>, <<"call_model">>, <<"call_model", "write_memory">>}
      /\ (run[t].pc = END => run[t].calls = <<"call_model", "write_memory">>)

C5_Witness ==
  \E t \in Threads :
    /\ run[t].decision = "regular_route"
    /\ run[t].pc = END
    /\ run[t].calls = <<"call_model", "write_memory">>

\* The puts to the profile of a patient, as positions of storeLog.
PutsOf(p) ==
  {i \in DOMAIN storeLog : storeLog[i].op = "put" /\ storeLog[i].patient_id = p}

Max(S) == CHOOSE m \in S : \A n \in S : n <= m

\* The profile records of a patient in the store.
RecordsOf(p) ==
  {i \in store : i.namespace = <<"patient_interactions", p>>
                   /\ i.key = "patient_data_memory"}

\* C6: last writer wins.  In every state the profile record of a patient holds
\* exactly the value of the last put made for that patient (and there is no
\* record before the first put), whatever the invocations read before.
C6_LastWriterWins ==
  \A p \in Patients :
    IF PutsOf(p) = {} THEN RecordsOf(p) = {}
    ELSE RecordsOf(p) =
           {[namespace |-> <<"patient_interactions", p>>,
             key |-> "patient_data_memory",
             value |-> storeLog[Max(PutsOf(p))].value]}

\* The lost update: two invocations for one patient have both read the same
\* previous profile in write_memory before either put; both have put; the
\* record holds the text of the later put only.
C6_Witness ==
  \E t1, t2 \in Threads : \E g1, g2, p1, p2 \in DOMAIN storeLog :
    /\ t1 # t2 /\ run[t1].patient_id = run[t2].patient_id
    /\ run[t1].pc = END /\ run[t2].pc = END
    /\ storeLog[g1].inv = run[t1].inv /\ storeLog[g1].op = "get"
    /\ storeLog[g1].node = "write_memory"
    /\ storeLog[g2].inv = run[t2].inv /\ storeLog[g2].op = "get"
    /\ storeLog[g2].node = "write_memory"
    /\ storeLog[g1].value = storeLog[g2].value
    /\ storeLog[p1].inv = run[t1].inv /\ storeLog[p1].op = "put"
    /\ storeLog[p2].inv = run[t2].inv /\ storeLog[p2].op = "put"
    /\ g1 < p1 /\ g2 < p1 /\ p1 < p2
    /\ run[t1].new_insights # run[t2].new_insights
    /\ \A i \in RecordsOf(run[t1].patient_id) :
         i.value.patient_data_memory = run[t2].new_insights.content

\* The texts put so far for a patient.
TextsPutFor(p) == {storeLog[i].value.patient_data_memory : i \in PutsOf(p)}

LastOpOf(t) == Max({i \in DOMAIN storeLog : storeLog[i].inv = run[t].inv})

\* The puts for t's patient made before that get.
PutsBeforeGet(t) == {i \in PutsOf(run[t].patient_id) : i < LastOpOf(t)}

HistoryAt == CHOOSE k \in DOMAIN UPDATE_PATIENT_PROFILE_INSTRUCTION :
               UPDATE_PATIENT_PROFILE_INSTRUCTION[k] = "{history}"

\* C8: once a profile has been put for a patient, a later call_model or
\* write_memory for that patient sends the model the text of the last put in
\* the profile position of its system message, not the "No existing ..."
\* fallback.
C8_FollowUpSeesProfile ==
  \A t \in Threads :
    (run[t].pc \in {"call_model:invoke", "write_memory:invoke"}
       /\ PutsBeforeGet(t) # {}) =>
      LET text == storeLog[Max(PutsBeforeGet(t))].value.patient_data_memory
          content == run[t].request[1].content
          n == Len(content)
      IN  /\ run[t].request[1].type = "system"
          /\ run[t].pc = "call_model:invoke" =>
               /\ n = Len(MODEL_SYSTEM_MESSAGE) - 2 + Len(CLINIC_NAME) + Len(text)
               /\ SubSeq(content, n - Len(text) + 1, n) = text
               /\ SubSeq(content, n - Len(NO_PROFILE_FOUND) + 1, n) # NO_PROFILE_FOUND
          /\ run[t].pc = "write_memory:invoke" =>
               /\ n = Len(UPDATE_PATIENT_PROFILE_INSTRUCTION) - 1 + Len(text)
               /\ SubSeq(content, HistoryAt, HistoryAt + Len(text) - 1) = text
               /\ SubSeq(content, HistoryAt, HistoryAt + Len(NO_HISTORY) - 1)
                    # NO_HISTORY

\* A follow-up invocation on the thread of a completed one is in call_model
\* with the profile the first one wrote.
C8_Witness ==
  \E t \in Threads :
    /\ run[t].pc = "call_model:invoke"
    /\ run[t].inv = 2
    /\ Len(run[t].messages0) > Len(run[t].input)
    /\ PutsBeforeGet(t) # {}
    /\ run[t].history = storeLog[Max(PutsBeforeGet(t))].value.patient_data_memory
    /\ run[t].history \in ModelOutputs

\* C9: when an invocation has completed and no later put was made for its
\* patient, the profile record is exactly the raw text the model returned to
\* its write_memory, nothing of the previous value kept; and a patient never
\* has more than one record.
C9_ProfileFullyReplaced ==
  /\ \A p \in Patients : Cardinality(RecordsOf(p)) <= 1
  /\ \A t \in Threads :
       (run[t].pc = END /\ PutsOf(run[t].patient_id) # {}
          /\ storeLog[Max(PutsOf(run[t].patient_id))].inv = run[t].inv) =>
         RecordsOf(run[t].patient_id) =
           {[namespace |-> <<"patient_interactions", run[t].patient_id>>,
             key |-> "patient_data_memory",
             value |-> [patient_data_memory |-> run[t].new_insights.content]]}

\* A completed invocation replaced an existing, different profile text.
C9_Witness ==
  \E t \in Threads :
    /\ run[t].pc = END
    /\ run[t].profile0 # None
    /\ run[t].profile0.value.patient_data_memory # run[t].new_insights.content
    /\ storeLog[Max(PutsOf(run[t].patient_id))].inv = run[t].inv
    /\ \A i \in RecordsOf(run[t].patient_id) :
         i.value.patient_data_memory = run[t].new_insights.content

\* "emergency" occurs in s, each letter in either case.
AnyCaseEmergency(s) ==
  \E i \in 1..(Len(s) - 8) :
    \A j \in 1..9 :
      s[i + j - 1] \in {<<"e", "m", "e", "r", "g", "e", "n", "c", "y">>[j],
                        <<"E", "M", "E", "R", "G", "E", "N", "C", "Y">>[j]}

\* C10: for a state with at least one message check_condition decides
\* emergency_route exactly when the content of the last message contains
\* "emergency" in any letter case, and regular_route otherwise; no other
\* decision exists; and when it has run, the messages, the checkpoint and the
\* store are as they were.
C10_RouterClassification ==
  \A t \in Threads :
    /\ run[t].decision \in {"unset", "emergency_route", "regular_route"}
    /\ (run[t].nodes # <<>> /\ run[t].messages0 # <<>>) =>
         run[t].decision =
           IF AnyCaseEmergency(run[t].messages0[Len(run[t].messages0)].content)
           THEN "emergency_route" ELSE "regular_route"
    /\ run[t].pc \in {"handle_emergency", "call_model"} =>
         /\ run[t].messages = run[t].messages0
         /\ checkpoint[t] = run[t].messages0
         /\ \A i \in DOMAIN storeLog : storeLog[i].inv # run[t].inv
         /\ ProfileUnchanged(t)

\* One invocation is routed to emergency on a last message that spells the
\* word with capitals, another to regular on a last message that has all of
\* the word but one letter.
C10_Witness ==
  \E t1, t2 \in Threads :
    /\ run[t1].decision = "emergency_route"
    /\ ~ Contains(EMERGENCY_WORD, run[t1].messages0[Len(run[t1].messages0)].content)
    /\ run[t2].decision = "regular_route"
    /\ Contains(<<"e", "m", "e", "r", "g", "e", "n", "c">>,
                run[t2].messages0[Len(run[t2].messages0)].content)

\* The store operations of the invocation running on t, as positions of
\* storeLog.
OpsBy(t) == {i \in DOMAIN storeLog : storeLog[i].inv = run[t].inv}

\* C11: an invocation whose state has no message at all fails in
\* check_condition (the IndexError of line 53), before any model.invoke call
\* and before any get or put of the store; the profile record is unchanged.
C11_EmptyStateFailsInRouter ==
  \A t \in Threads :
    (run[t].pc # "idle" /\ run[t].messages0 = <<>>) =>
      /\ run[t].pc \in {"check_condition", "ERROR"}
      /\ run[t].pc = "ERROR" =>
           (run[t].failed_at = "check_condition" /\ run[t].error = "IndexError")
      /\ run[t].decision = "unset"
      /\ run[t].calls = <<>>
      /\ run[t].request = <<>>
      /\ OpsBy(t) = {}
      /\ ProfileUnchanged(t)

\* An invocation with no message has failed in check_condition while the
\* profile of its patient exists.
C11_Witness ==
  \E t \in Threads :
    /\ run[t].messages0 = <<>>
    /\ run[t].pc = "ERROR"
    /\ run[t].nodes = <<"check_condition">>
    /\ run[t].profile0 # None
    /\ RecordsOf(run[t].patient_id) = {run[t].profile0}

\* The system message of a request with the text h in the profile position.
CarriesProfile(t, h) ==
  LET content == run[t].request[1].content
      n == Len(content)
  IN  /\ run[t].request[1].type = "system"
      /\ run[t].pc = "call_model:invoke" =>
           /\ n = Len(MODEL_SYSTEM_MESSAGE) - 2 + Len(CLINIC_NAME) + Len(h)
           /\ SubSeq(content, n - Len(h) + 1, n) = h
      /\ run[t].pc = "write_memory:invoke" =>
           /\ n = Len(UPDATE_PATIENT_PROFILE_INSTRUCTION) - 1 + Len(h)
           /\ SubSeq(content, HistoryAt, HistoryAt + Len(h) - 1) = h

\* C12: a missing profile record is no error.  When the patient has no record
\* at the get of call_model, its system message carries "No existing patient
\* profile found." in the profile position; when there is none at the get of
\* write_memory, its system message carries "No existing history."; when there
\* is a record, both carry its stored text.  The only failure of these two
\* nodes is the one of model.invoke.
C12_MissingProfileFallback ==
  \A t \in Threads :
    /\ run[t].failed_at \in {"call_model", "write_memory"}
         => run[t].error = "model.invoke"
    /\ run[t].pc \in {"call_model:invoke", "write_memory:invoke"} =>
         LET rec == RecordsOf(run[t].patient_id)
             unput == \A i \in PutsOf(run[t].patient_id) : i > LastOpOf(t)
         IN  /\ (unput /\ run[t].pc = "call_model:invoke")
                  => CarriesProfile(t, <<"N", "o", " ", "e", "x", "i", "s", "t",
                       "i", "n", "g", " ", "p", "a", "t", "i", "e", "n", "t", " ",
                       "p", "r", "o", "f", "i", "l", "e", " ", "f", "o", "u", "n",
                       "d", ".">>)
             /\ (unput /\ run[t].pc = "write_memory:invoke")
                  => CarriesProfile(t, <<"N", "o", " ", "e", "x", "i", "s", "t",
                       "i", "n", "g", " ", "h", "i", "s", "t", "o", "r", "y", ".">>)
             /\ (~ unput /\ storeLog[LastOpOf(t)].value # None)
                  => CarriesProfile(t,
                       storeLog[LastOpOf(t)].value.value.patient_data_memory)
             /\ (storeLog[LastOpOf(t)].value = None) <=> unput

\* One invocation has sent the fallback of call_model and now sends the
\* fallback of write_memory, the patient still having no record.
C12_Witness ==
  \E t \in Threads :
    /\ run[t].pc = "write_memory:invoke"
    /\ run[t].calls = <<"call_model", "write_memory">>
    /\ RecordsOf(run[t].patient_id) = {}
    /\ run[t].history = NO_HISTORY
    /\ \E i \in OpsBy(t) :
         storeLog[i].node = "call_model" /\ storeLog[i].value = None

IsPrefix(a, b) == Len(a) <= Len(b) /\ SubSeq(b, 1, Len(a)) = a

\* C13: the nodes of an invocation run one after the other in the order
\* check_condition, then one of handle_emergency and call_model (never both,
\* and the one the decision names), then write_memory; each starts when the
\* one before it has finished, and write_memory starts after the reply is in
\* the messages.
C13_StrictStepOrder ==
  \A t \in Threads :
    /\ \/ IsPrefix(run[t].nodes,
                   <<"check_condition", "handle_emergency", "write_memory">>)
       \/ IsPrefix(run[t].nodes,
                   <<"check_condition", "call_model", "write_memory">>)
    /\ Len(run[t].nodes) >= 2 =>
         run[t].decision = (IF run[t].nodes[2] = "handle_emergency"
                            THEN "emergency_route" ELSE "regular_route")
    /\ run[t].pc \in {"idle", "check_condition"} => run[t].nodes = <<>>
    /\ run[t].pc \in {"handle_emergency", "call_model"} =>
         (run[t].nodes = <<"check_condition">> /\ ~ Replied(t))
    /\ run[t].pc = "call_model:invoke" =>
         (Len(run[t].nodes) = 2 /\ ~ Replied(t))
    /\ run[t].pc = "write_memory" => (Len(run[t].nodes) = 2 /\ Replied(t))
    /\ run[t].pc \in {"write_memory:invoke", END} =>
         (Len(run[t].nodes) = 3 /\ Replied(t))
    /\ (run[t].request # <<>>)
         <=> run[t].pc \in {"call_model:invoke", "write_memory:invoke"}

C13_Witness ==
  \E t1, t2 \in Threads :
    /\ run[t1].pc = END
    /\ run[t1].nodes = <<"check_condition", "handle_emergency", "write_memory">>
    /\ run[t2].pc = "write_memory:invoke"
    /\ run[t2].nodes = <<"check_condition", "call_model", "write_memory">>

\* C14: the decision is never "end"; an invocation at END has gone through a
\* reply node and write_memory and has put the profile, none goes from
\* check_condition straight to END.
C14_EndRouteNeverTaken ==
  \A t \in Threads :
    /\ run[t].decision # "end"
    /\ run[t].pc = END =>
         /\ run[t].decision \in {"emergency_route", "regular_route"}
         /\ Len(run[t].nodes) = 3
         /\ run[t].nodes[2] \in {"handle_emergency", "call_model"}
         /\ run[t].nodes[3] = "write_memory"
         /\ Len(run[t].messages) = Len(run[t].messages0) + 1
         /\ PutsBy(run[t].inv) # {}

\* An invocation reached END on a last message without the word.
C14_Witness ==
  \E t \in Threads :
    /\ run[t].pc = END
    /\ ~ AnyCaseEmergency(run[t].messages0[Len(run[t].messages0)].content)
    /\ run[t].nodes = <<"check_condition", "call_model", "write_memory">>
    /\ PutsBy(run[t].inv) # {}

\* C15: the request write_memory sends is its system message followed by the
\* messages the invocation started with and, last, the reply this invocation
\* produced; the profile text in the system message is the one stored when
\* write_memory does its get (the last put before it, or the default), also
\* when call_model read something else earlier.
C15_SummarizerSeesReplyAndFreshProfile ==
  \A t \in Threads :
    run[t].pc = "write_memory:invoke" =>
      LET req == run[t].request
          reply == req[Len(req)]
      IN  /\ Len(req) = Len(run[t].messages0) + 2
          /\ SubSeq(req, 2, Len(req) - 1) = run[t].messages0
          /\ reply = checkpoint[t][Len(checkpoint[t])]
          /\ IF run[t].decision = "emergency_route"
             THEN reply.type = "system" /\ AnyCaseEmergency(reply.content)
             ELSE reply.type = "ai" /\ reply.content \in ModelOutputs
          /\ IF PutsBeforeGet(t) = {}
             THEN CarriesProfile(t, NO_HISTORY)
             ELSE CarriesProfile(t,
                    storeLog[Max(PutsBeforeGet(t))].value.patient_data_memory)

\* call_model found no record; another invocation put one; write_memory of the
\* first sends the new text.
C15_Witness ==
  \E t \in Threads : \E g \in OpsBy(t) :
    /\ run[t].pc = "write_memory:invoke"
    /\ storeLog[g].node = "call_model" /\ storeLog[g].value = None
    /\ storeLog[LastOpOf(t)].node = "write_memory"
    /\ storeLog[LastOpOf(t)].value # None
    /\ run[t].history = storeLog[LastOpOf(t)].value.value.patient_data_memory
    /\ run[t].history # NO_HISTORY

\* C16: only write_memory changes the store.  Every put is made by
\* write_memory, under the namespace and key of the invocation's own patient;
\* an invocation makes at most one put, and none before its write_memory has
\* got its answer; every item of the store was put that way.
C16_OnlySummarizerWrites ==
  /\ \A i \in DOMAIN storeLog :
       storeLog[i].op = "put" =>
         /\ storeLog[i].node = "write_memory"
         /\ storeLog[i].namespace = <<"patient_interactions", storeLog[i].patient_id>>
         /\ storeLog[i].key = "patient_data_memory"
  /\ \A item \in store :
       \E i \in DOMAIN storeLog :
         /\ storeLog[i].op = "put"
         /\ item = [namespace |-> storeLog[i].namespace, key |-> storeLog[i].key,
                    value |-> storeLog[i].value]
  /\ \A t \in Threads :
       /\ Cardinality(PutsBy(run[t].inv)) <= 1
       /\ run[t].pc # END => (PutsBy(run[t].inv) = {} /\ ProfileUnchanged(t))

\* A regular invocation has completed: two gets, then its one put.
C16_Witness ==
  \E t \in Threads :
    /\ run[t].pc = END
    /\ run[t].decision = "regular_route"
    /\ Cardinality(PutsBy(run[t].inv)) = 1
    /\ Cardinality(OpsBy(t)) = 3
    /\ run[t].profile0 # None

LastOf(seq) == seq[Len(seq)]

Routed(t) == run[t].decision # "unset"

\* C17: the route depends on the last message only.  Any two invocations whose
\* states at check_condition end with the same message have the same
\* decision, whatever the earlier messages and the stored profiles are.
C17_RouteFromLastTurnOnly ==
  \A t1, t2 \in Threads :
    (Routed(t1) /\ Routed(t2)
       /\ LastOf(run[t1].messages0) = LastOf(run[t2].messages0))
      => run[t1].decision = run[t2].decision

\* Two routed invocations with the same last message: one has an earlier
\* message with the word and a stored profile, the other has neither.
C17_Witness ==
  \E t1, t2 \in Threads :
    /\ Routed(t1) /\ Routed(t2)
    /\ LastOf(run[t1].messages0) = LastOf(run[t2].messages0)
    /\ Len(run[t1].messages0) = 2 /\ Len(run[t2].messages0) = 1
    /\ AnyCaseEmergency(run[t1].messages0[1].content)
    /\ run[t1].profile0 # None /\ run[t2].profile0 = None
    /\ run[t1].decision = "regular_route"
    /\ run[t2].decision = "regular_route"

\* C18: no retries.  An invocation calls model.invoke at most once in
\* call_model and at most once in write_memory, so at most twice; a call that
\* failed ended the invocation, and no call follows it.
C18_NoRetries ==
  \A t \in Threads :
    /\ Count(run[t].calls, "call_model") <= 1
    /\ Count(run[t].calls, "write_memory") <= 1
    /\ Len(run[t].calls) <= 2
    /\ run[t].failed_at \in {"call_model", "write_memory"} =>
         /\ run[t].pc = "ERROR"
         /\ run[t].request = <<>>
         /\ LastOf(run[t].calls) = run[t].failed_at
         /\ LastOf(run[t].nodes) = run[t].failed_at

\* The second call of a regular invocation has failed.
C18_Witness ==
  \E t \in Threads :
    /\ run[t].failed_at = "write_memory"
    /\ run[t].pc = "ERROR"
    /\ run[t].calls = <<"call_model", "write_memory">>

\* C19: the messages of a thread only grow at the end.  An invocation starts
\* with the saved messages followed by the caller's new messages;
\* check_condition and write_memory add nothing; the reply node adds exactly
\* one message, an "ai" message on the regular route and the fixed "system"
\* message on the emergency route; what is saved for the thread is always the
\* messages of its invocation.
C19_OneReplyTurnAppended ==
  \A t \in Threads :
    run[t].pc # "idle" =>
      LET m0 == run[t].messages0
          m == run[t].messages
      IN  /\ Len(m0) = Len(run[t].checkpoint0) + Len(run[t].input)
          /\ SubSeq(m0, 1, Len(run[t].checkpoint0)) = run[t].checkpoint0
          /\ SubSeq(m0, Len(run[t].checkpoint0) + 1, Len(m0)) = run[t].input
          /\ checkpoint[t] = m
          /\ SubSeq(m, 1, Len(m0)) = m0
          /\ Len(m) = Len(m0) + (IF Count(run[t].nodes, "write_memory") = 1
                                    \/ run[t].pc = "write_memory"
                                 THEN 1 ELSE 0)
          /\ Len(m) > Len(m0) =>
               IF run[t].decision = "regular_route"
               THEN LastOf(m).type = "ai"
               ELSE /\ run[t].decision = "emergency_route"
                    /\ LastOf(m).type = "system"
                    /\ LastOf(m).content = EMERGENCY_CONTENT

\* The second invocation of a thread has completed: the earlier messages, the
\* caller's two new ones and the reply.
C19_Witness ==
  \E t \in Threads :
    /\ run[t].pc = END
    /\ run[t].checkpoint0 # <<>>
    /\ Len(run[t].input) = 2
    /\ Len(checkpoint[t]) = Len(run[t].checkpoint0) + 3
    /\ SubSeq(checkpoint[t], 1, Len(run[t].checkpoint0)) = run[t].checkpoint0

Running(t) == run[t].pc \notin {"idle", END, "ERROR"}

\* C20: the graph has no cycle.  No invocation runs more than three nodes, and,
\* when every model.invoke call returns or raises, every started invocation
\* reaches END or ends with an error, on either route and whatever the other
\* invocations do.
C20_EveryInvocationTerminates ==
  /\ [](\A t \in Threads : Len(run[t].nodes) <= 3)
  /\ \A t \in FairThreads : Running(t) ~> (run[t].pc \in {END, "ERROR"})

\* One invocation has reached END after three nodes while another has ended
\* with the error of its model call.
C20_Witness ==
  \E t1, t2 \in Threads :
    /\ run[t1].pc = END /\ Len(run[t1].nodes) = 3
    /\ run[t2].pc = "ERROR" /\ run[t2].failed_at = "call_model"
    /\ Len(run[t2].nodes) = 2
====
